---- MODULE Spec2Model ----
(***************************************************************************)
(* A model of the ITE IT87xx hardware-monitor driver (src/it87.cpp) and of  *)
(* its predecessor with the busy-polled read path (src/it87_driver.c): the  *)
(* Super-I/O configuration-port protocol, chip detection, resolution of the *)
(* Environmental Controller's I/O window, the refresh transaction and the   *)
(* decoding of raw counts, together with the driver and device hooks.       *)
(*                                                                          *)
(* The chip is modelled at the level of single port accesses: every         *)
(* write_io_8/read_io_8 of the driver acts on the hardware record and is    *)
(* appended to the I/O log of the running hook.                             *)
(***************************************************************************)
EXTENDS Integers, Sequences, FiniteSets, TLC

VARIABLES
    gChipID,        \* static uint16 gChipID
    gBaseAddress,   \* static uint16 gBaseAddress
    hw,             \* the chip: configuration space and EC register windows
    build,          \* what the compiler was free to choose (see Builds)
    phase,          \* where the kernel is in the driver's life cycle
    refs,           \* references held on the ISA bus-manager module
    loads,          \* number of init_hardware calls so far
    data,           \* the it87_sensors_data of the last telemetry request
    pre,            \* what the last hook found: buffer and configuration register
    calc,           \* the fan counts and int results of the last refresh
    out,            \* the lines device_read rendered
    log,            \* the port accesses of the last hook, in order
    ret,            \* the last hook and the status it returned
    threads,        \* per client: the hook it is inside and how far it got
    gOpenCount,     \* static int32 gOpenCount (it87_driver.c)
    cookies         \* per client: the kernel's view of its open of the device

vars == <<gChipID, gBaseAddress, hw, build, phase, refs, loads, data, pre, calc, out, log, ret,
          threads, gOpenCount, cookies>>

-----------------------------------------------------------------------------
(* Integer widths and bit operations of the C code.                        *)

ByteMax == 255
Byte == 0..ByteMax

U8(x) == x % 256
U16(x) == x % 65536
\* conversion of an int to int16 (the fields of it87_sensors_data)
ToInt16(x) == ((x + 32768) % 65536) - 32768

RECURSIVE Pow2(_)
Pow2(k) == IF k = 0 THEN 1 ELSE 2 * Pow2(k - 1)

TestBit(v, k) == (v \div Pow2(k)) % 2 = 1
SetBit(v, k) == IF TestBit(v, k) THEN v ELSE v + Pow2(k)
ClearBit(v, k) == IF TestBit(v, k) THEN v - Pow2(k) ELSE v
\* v | mask and v & ~mask on bytes, bit by bit
RECURSIVE OrBits(_, _, _)
OrBits(v, mask, k) ==
    IF k > 7 THEN v
    ELSE OrBits(IF TestBit(mask, k) THEN SetBit(v, k) ELSE v, mask, k + 1)
BitOr(v, mask) == OrBits(v, mask, 0)
\* a | b of a byte and a byte shifted left by 8: no bit in common
BitOr16(a, b) == a + b

-----------------------------------------------------------------------------
(* Ports and registers.                                                    *)

\* Super-I/O configuration address port and its data port (port + 1)
CFG_PORT == 46
\* the four bytes of the "enter MB PnP mode" key
KEY_1 == 135
KEY_2 == 1
KEY_3 == 85
KEY_4 == 85
PnPKey == <<KEY_1, KEY_2, KEY_3, KEY_4>>
\* configuration registers
CFG_CONTROL == 2      \* configure control; bit 1 returns to "wait for key"
CFG_LDN == 7          \* logical device number
CFG_CHIP_ID_HI == 32
CFG_CHIP_ID_LO == 33
CFG_ACTIVATE == 48
CFG_BASE_HI == 96
CFG_BASE_LO == 97
LDN_EC == 4           \* the Environmental Controller

\* it87_regs.h: offsets of the EC's address and data ports in its I/O window
IT87_ADDR_PORT_OFFSET == 5
IT87_DATA_PORT_OFFSET == 6
\* the busy flag in the value read from the address port
IT87_BUSY == 128
\* it87_regs.h: EC registers
IT87_REG_CONFIG == 0
IT87_REG_FAN_16BITS == 12
IT87_REG_FAN_1 == 13
IT87_REG_FAN_2 == 14
IT87_REG_FAN_3 == 15
IT87_REG_FAN_1_EXT == 24
IT87_REG_FAN_2_EXT == 25
IT87_REG_FAN_3_EXT == 26
IT87_REG_VIN0 == 32
IT87_REG_VIN1 == 33
IT87_REG_VIN2 == 34
IT87_REG_VIN3 == 35
IT87_REG_VIN4 == 36
IT87_REG_VIN5 == 37
IT87_REG_VIN6 == 38
IT87_REG_VIN7 == 39
IT87_REG_VBAT == 40
IT87_REG_TEMP0 == 41
IT87_REG_TEMP1 == 42
IT87_REG_TEMP2 == 43
IT87_CONFIG_SELECT_CHIP_VER == 34
IT87_REG_ITE_VENDOR_ID == 88
IT87_REG_CORE_ID == 91
IT87_REG_FAN_4_LSB == 128
IT87_REG_FAN_4_MSB == 129
IT87_REG_FAN_5_LSB == 130
IT87_REG_FAN_5_MSB == 131

VoltageRegs == <<IT87_REG_VIN0, IT87_REG_VIN1, IT87_REG_VIN2, IT87_REG_VIN3,
                 IT87_REG_VIN4, IT87_REG_VIN5, IT87_REG_VIN6, IT87_REG_VIN7,
                 IT87_REG_VBAT>>
TempRegs == <<IT87_REG_TEMP0, IT87_REG_TEMP1, IT87_REG_TEMP2>>
FanLowRegs == <<IT87_REG_FAN_1, IT87_REG_FAN_2, IT87_REG_FAN_3,
                IT87_REG_FAN_4_LSB, IT87_REG_FAN_5_LSB>>
FanHighRegs == <<IT87_REG_FAN_1_EXT, IT87_REG_FAN_2_EXT, IT87_REG_FAN_3_EXT,
                 IT87_REG_FAN_4_MSB, IT87_REG_FAN_5_MSB>>

Range(s) == {s[i] : i \in DOMAIN s}
\* the registers the EC windows implement in this model
EcRegs == {IT87_REG_CONFIG, IT87_REG_FAN_16BITS, IT87_REG_ITE_VENDOR_ID, IT87_REG_CORE_ID}
            \cup Range(VoltageRegs) \cup Range(TempRegs)
            \cup Range(FanLowRegs) \cup Range(FanHighRegs)
\* offsets in the EC's I/O window at which an address port is driven
AddrOffsets == {0, IT87_ADDR_PORT_OFFSET}

-----------------------------------------------------------------------------
(* The chip.                                                                *)
(*   key   progress through the key, 4 = in MB PnP (configuration) mode     *)
(*   cidx  index latched at the configuration address port                  *)
(*   cc    configure control register as it reads back                      *)
(*   ldn   selected logical device                                          *)
(*   id    chip ID registers <<high, low>>                                  *)
(*   dev   per logical device: activate and base address registers          *)
(*   win   per address port of the EC window: latched index and registers   *)
(*   flag  whether the EC's address port carries a busy flag                *)
(*   busy  polls of the address port that still find the flag set, -1 when  *)
(*         the flag never clears                                            *)

\* the I/O base the EC decodes, 0 when it decodes none
EcBase(h) ==
    IF LDN_EC \in DOMAIN h.dev /\ TestBit(h.dev[LDN_EC].act, 0)
    THEN h.dev[LDN_EC].bh * 256 + h.dev[LDN_EC].bl
    ELSE 0

InPnPMode(h) == h.key = 4

CfgRead(h, reg) ==
    CASE reg = CFG_CONTROL -> h.cc
      [] reg = CFG_LDN -> h.ldn
      [] reg = CFG_CHIP_ID_HI -> h.id[1]
      [] reg = CFG_CHIP_ID_LO -> h.id[2]
      [] reg = CFG_ACTIVATE /\ h.ldn \in DOMAIN h.dev -> h.dev[h.ldn].act
      [] reg = CFG_BASE_HI /\ h.ldn \in DOMAIN h.dev -> h.dev[h.ldn].bh
      [] reg = CFG_BASE_LO /\ h.ldn \in DOMAIN h.dev -> h.dev[h.ldn].bl
      [] OTHER -> ByteMax

CfgWrite(h, reg, v) ==
    CASE reg = CFG_CONTROL ->
            \* bit 1 is self-clearing and leaves configuration mode
            [h EXCEPT !.cc = ClearBit(v, 1),
                      !.key = IF TestBit(v, 1) THEN 0 ELSE @]
      [] reg = CFG_LDN -> [h EXCEPT !.ldn = v]
      [] reg = CFG_ACTIVATE /\ h.ldn \in DOMAIN h.dev -> [h EXCEPT !.dev[h.ldn].act = v]
      [] reg = CFG_BASE_HI /\ h.ldn \in DOMAIN h.dev -> [h EXCEPT !.dev[h.ldn].bh = v]
      [] reg = CFG_BASE_LO /\ h.ldn \in DOMAIN h.dev -> [h EXCEPT !.dev[h.ldn].bl = v]
      [] OTHER -> h

\* the offset of `port` in the EC window, or -1
EcOffset(h, port) == IF EcBase(h) = 0 THEN -1 ELSE port - EcBase(h)

HwWrite(h, port, v) ==
    LET off == EcOffset(h, port) IN
    CASE port = CFG_PORT ->
            IF InPnPMode(h) THEN [h EXCEPT !.cidx = v]
            ELSE IF v = PnPKey[h.key + 1] THEN [h EXCEPT !.key = @ + 1]
            ELSE [h EXCEPT !.key = IF v = PnPKey[1] THEN 1 ELSE 0]
      [] port = CFG_PORT + 1 ->
            IF InPnPMode(h) THEN CfgWrite(h, h.cidx, v) ELSE h
      [] off \in AddrOffsets ->
            [h EXCEPT !.win[off].idx = v]
      [] off - 1 \in AddrOffsets ->
            IF h.win[off - 1].idx \in EcRegs
            THEN [h EXCEPT !.win[off - 1].regs[h.win[off - 1].idx] = v]
            ELSE h
      [] OTHER -> h

\* the chip after a poll of the address port: one spin of the driver has passed
Polled(h) == [h EXCEPT !.busy = IF @ > 0 THEN @ - 1 ELSE @]

HwRead(h, port) ==
    LET off == EcOffset(h, port) IN
    CASE port = CFG_PORT + 1 ->
            IF InPnPMode(h) THEN CfgRead(h, h.cidx) ELSE ByteMax
      [] off \in AddrOffsets /\ h.flag ->
            (h.win[off].idx % IT87_BUSY) + (IF h.busy # 0 THEN IT87_BUSY ELSE 0)
      [] off - 1 \in AddrOffsets ->
            IF h.win[off - 1].idx \in EcRegs
            THEN h.win[off - 1].regs[h.win[off - 1].idx]
            ELSE ByteMax
      [] OTHER -> ByteMax

-----------------------------------------------------------------------------
(* Port I/O of the driver.  A machine is [hw, log, val]: the chip, the      *)
(* accesses made so far and the value of the last read.                     *)

write_io_8(m, port, v) ==
    LET now == m IN
    [hw |-> HwWrite(now.hw, U16(port), U8(v)),
     log |-> Append(now.log, <<"out", U16(port), U8(v)>>),
     val |-> now.val]

read_io_8(m, port) ==
    LET now == m
        v == HwRead(now.hw, U16(port))
    IN  [hw |-> now.hw, log |-> Append(now.log, <<"in", U16(port), v>>), val |-> v]

read_indexed(m, port, reg) == read_io_8(write_io_8(m, port, reg), port + 1)

write_indexed(m, port, reg, v) == write_io_8(write_io_8(m, port, reg), port + 1, v)

enter_mb_pnp_mode(m) ==
    write_io_8(write_io_8(write_io_8(write_io_8(m,
        CFG_PORT, KEY_1), CFG_PORT, KEY_2), CFG_PORT, KEY_3), CFG_PORT, KEY_4)

\* a variant that writes register 0x02 back as read, without setting bit 1
exit_mb_pnp_mode_NoSet(m) ==
    LET r == read_indexed(m, CFG_PORT, CFG_CONTROL)
    IN  write_indexed(r, CFG_PORT, CFG_CONTROL, r.val)

exit_mb_pnp_mode(m) ==
    LET r == read_indexed(m, CFG_PORT, CFG_CONTROL)
    IN  write_indexed(r, CFG_PORT, CFG_CONTROL, BitOr(r.val, 2))

-----------------------------------------------------------------------------
(* What the compiler is free to choose.                                     *)
(*   fp     precision in which  int * 1.68  is evaluated: IEEE double, or   *)
(*          the x87's extended format (64-bit mantissa)                     *)
(*   order  order in which the two operands of  a | b  are evaluated        *)

Builds == [fp : {"double", "extended"}, order : {"lr", "rl"}]

-----------------------------------------------------------------------------
(* Detection and address resolution.                                        *)

SupportedIDs == {34341, 34344, 34389, 34565, 34578, 34584,
                 34592, 34593, 34598, 34600, 34673, 34674}
IT8705 == 34565
IT8712 == 34578

\* (read_indexed(0x2E, 0x20) << 8) | read_indexed(0x2E, 0x21): [hw, log, val]
ReadChipID(m, order) ==
    IF order = "lr"
    THEN LET hi == read_indexed(m, CFG_PORT, CFG_CHIP_ID_HI)
             lo == read_indexed(hi, CFG_PORT, CFG_CHIP_ID_LO)
         IN  [lo EXCEPT !.val = U16(hi.val * 256 + lo.val)]
    ELSE LET lo == read_indexed(m, CFG_PORT, CFG_CHIP_ID_LO)
             hi == read_indexed(lo, CFG_PORT, CFG_CHIP_ID_HI)
         IN  [hi EXCEPT !.val = U16(hi.val * 256 + lo.val)]

\* a variant that accepts every ID whose high byte is 0x87
MatchChipID_HighByte(chip_id) == IF chip_id \div 256 = 135 THEN chip_id ELSE 0

\* the switch over chip_id
MatchChipID(chip_id) == IF chip_id \in SupportedIDs THEN chip_id ELSE 0

\* a variant that selects the Environmental Controller before it reads the ID
it87xx_detect_SelectsEC(m, order) ==
    LET id == ReadChipID(write_indexed(enter_mb_pnp_mode(m), CFG_PORT, CFG_LDN, LDN_EC), order)
    IN  [exit_mb_pnp_mode(id) EXCEPT !.val = MatchChipID(id.val)]

it87xx_detect(m, order) ==
    LET id == ReadChipID(enter_mb_pnp_mode(m), order)
    IN  [exit_mb_pnp_mode(id) EXCEPT !.val = MatchChipID(id.val)]

\* a variant that takes register 0x60 as the low byte
find_isa_port_address_LowFirst(m) ==
    LET sel == write_indexed(enter_mb_pnp_mode(m), CFG_PORT, CFG_LDN, LDN_EC)
        act == write_indexed(sel, CFG_PORT, CFG_ACTIVATE, 1)
        hi == read_indexed(act, CFG_PORT, CFG_BASE_HI)
        lo == read_indexed(hi, CFG_PORT, CFG_BASE_LO)
    IN  [exit_mb_pnp_mode(lo) EXCEPT !.val = U16(U16(lo.val * 256) + hi.val)]

find_isa_port_address(m) ==
    LET sel == write_indexed(enter_mb_pnp_mode(m), CFG_PORT, CFG_LDN, LDN_EC)
        act == write_indexed(sel, CFG_PORT, CFG_ACTIVATE, 1)
        hi == read_indexed(act, CFG_PORT, CFG_BASE_HI)
        lo == read_indexed(hi, CFG_PORT, CFG_BASE_LO)
    \* port = hi << 8; port |= lo: the low byte of hi << 8 is 0
    IN  [exit_mb_pnp_mode(lo) EXCEPT !.val = U16(U16(hi.val * 256) + lo.val)]

-----------------------------------------------------------------------------
(* Runtime register access.                                                 *)

\* a variant that also sets bit 7
ConfigEnable_Bit7(value) == SetBit(SetBit(SetBit(value, 7), 6), 0)
\* a variant that stops monitoring but leaves the VBAT update bit set
ConfigDisable_OnlyBit0(value) == ClearBit(value, 0)

ConfigEnable(value) == SetBit(SetBit(value, 6), 0)
ConfigDisable(value) == ClearBit(ClearBit(value, 6), 0)

it87_config(m, base, enable) ==
    LET r == read_indexed(m, base, IT87_REG_CONFIG)
    IN  write_indexed(r, base, IT87_REG_CONFIG,
                      IF enable THEN ConfigEnable(r.val) ELSE ConfigDisable(r.val))

ITESensorRead(m, base, regNum) ==
    read_io_8(write_io_8(m, base + IT87_ADDR_PORT_OFFSET, regNum),
              base + IT87_DATA_PORT_OFFSET)

ITESensorWrite(m, base, regNum, value) ==
    write_io_8(write_io_8(m, base + IT87_ADDR_PORT_OFFSET, regNum),
               base + IT87_DATA_PORT_OFFSET, value)

-----------------------------------------------------------------------------
(* Decoding.                                                                *)

\* (value & 1 << 7) ? (~(unsigned)value) + 1 : value
\* ~value + 1 is the 32-bit negation 2^32 - value, which reads -value as an int
TwosComplement(value) == IF TestBit(value, 7) THEN -value ELSE value

\* a variant that clamps counts below 2 to 2
CountToRPM_Clamp2(count) ==
    IF count = 255 THEN 0
    ELSE 1350000 \div ((IF count < 2 THEN 2 ELSE count) * 2)

CountToRPM(count) ==
    IF count = 255 THEN 0
    ELSE 1350000 \div ((IF count < 2 THEN 152 ELSE count) * 2)

Count16ToRPM(count) ==
    IF count = 0 \/ count = 255 \/ count = 65535 THEN 0
    ELSE 675000 \div count

ADC_RES == 16

\* a variant that forgets the ADC resolution
Millivolts_NoResolution(count, scale) == ToInt16(count * scale)

\* ITESensorRead(reg) * ADC_RES [* 4] stored in an int16
Millivolts(count, scale) == ToInt16(count * ADC_RES * scale)

\* The double nearest to 1.68 is DBL_168 / 2^52 with
\* DBL_168 = 7566047373982433 = (M2 * 2^18 + M1) * 2^18 + M0.
DBL_168_M0 == 31457
DBL_168_M1 == 125829
DBL_168_M2 == 110100
LIMB == 262144

RECURSIVE BitLength(_)
BitLength(n) == IF n = 0 THEN 0 ELSE 1 + BitLength(n \div 2)

\* (int) (x * 1.68) for 0 <= x < 4096 with the product rounded to nearest-even
\* in a format of `mant` mantissa bits: the product x * DBL_168 is kept in
\* three limbs, rounded to a multiple of 2^k, and cut at the binary point.
MulTrunc168(x, mant) ==
    IF x = 0 THEN 0 ELSE
    LET p0 == x * DBL_168_M0
        p1 == x * DBL_168_M1 + p0 \div LIMB
        l0 == p0 % LIMB
        l1 == p1 % LIMB
        l2 == x * DBL_168_M2 + p1 \div LIMB
        top == 36 + BitLength(l2) - 1
        k == IF top - mant + 1 > 0 THEN top - mant + 1 ELSE 0
        u == Pow2(k)
        t == l0 % u
        down == l0 - t
        r0 == IF k = 0 \/ 2 * t < u THEN down
              ELSE IF 2 * t > u THEN down + u
              ELSE IF (down \div u) % 2 = 0 THEN down ELSE down + u
        r1 == l1 + r0 \div LIMB
        r2 == l2 + r1 \div LIMB
    IN  r2 \div 65536

\* a variant that multiplies by the truncated factor (int) (ADC_RES * 1.68)
Scale168_IntFactor(count, fp) == ToInt16(count * 26)

\* count * ADC_RES * 1.68 stored in an int16
Scale168(count, fp) ==
    ToInt16(MulTrunc168(count * ADC_RES, IF fp = "double" THEN 53 ELSE 64))

\* a variant that assembles the two bytes big-endian
Count16_BigEndian(low, high) == U16(BitOr16(high, low * 256))

\* ITESensorRead(low) | ITESensorRead(high) << 8, as the uint16 argument
Count16(low, high) == U16(BitOr16(low, high * 256))

-----------------------------------------------------------------------------
(* The refresh transaction.                                                 *)

IsLegacy(chip) == chip = IT8705 \/ chip = IT8712

\* the two registers of one 16-bit count, in the order the build reads them
Pair(low, high, order) == IF order = "lr" THEN <<low, high>> ELSE <<high, low>>

\* the registers it87_refresh reads, in the order it reads them
SensorReads(chip, order) ==
    VoltageRegs \o TempRegs \o
    (IF IsLegacy(chip)
     THEN <<IT87_REG_FAN_1, IT87_REG_FAN_2, IT87_REG_FAN_3>>
     ELSE Pair(IT87_REG_FAN_1, IT87_REG_FAN_1_EXT, order)
          \o Pair(IT87_REG_FAN_2, IT87_REG_FAN_2_EXT, order)
          \o Pair(IT87_REG_FAN_3, IT87_REG_FAN_3_EXT, order)
          \o Pair(IT87_REG_FAN_4_LSB, IT87_REG_FAN_4_MSB, order)
          \o Pair(IT87_REG_FAN_5_LSB, IT87_REG_FAN_5_MSB, order))

\* ITESensorRead of regs[i], regs[i + 1], ... one after the other; each read
\* is completed before the next one starts
RECURSIVE ReadSensors(_, _, _, _)
ReadSensors(m, base, regs, i) ==
    IF i > Len(regs) THEN m
    ELSE CHOOSE r \in {ReadSensors(n, base, regs, i + 1) :
                          n \in {ITESensorRead(m, base, regs[i])}} : TRUE

\* a variant that enables monitoring only after the sensor reads
RefreshIO_EnableLate(m, chip, base, order) ==
    exit_mb_pnp_mode(
        it87_config(
            it87_config(ReadSensors(enter_mb_pnp_mode(m), base, SensorReads(chip, order), 1),
                        base, TRUE),
            base, FALSE))

\* the port accesses of it87_refresh, from enter_mb_pnp_mode to exit_mb_pnp_mode
RefreshIO(m, chip, base, order) ==
    exit_mb_pnp_mode(
        it87_config(
            ReadSensors(it87_config(enter_mb_pnp_mode(m), base, TRUE),
                        base, SensorReads(chip, order), 1),
            base, FALSE))

\* the reads of the data port in log `l`, in order
DataReads(l, base) ==
    SelectSeq(l, LAMBDA e : e[1] = "in" /\ e[2] = U16(base + IT87_DATA_PORT_OFFSET))

\* the assignments of it87_refresh to `data`, from what the reads `got` of the
\* registers `regs` returned.  `d` is what the caller's it87_sensors_data
\* holds on entry; fields not assigned keep that content.
Decode(got, regs, d, legacy, fp) ==
    LET \* what ITESensorRead(reg) returned
        v(reg) == got[CHOOSE i \in 1..Len(regs) : regs[i] = reg][3]
        count(i) == IF legacy THEN v(FanLowRegs[i])
                    ELSE Count16(v(FanLowRegs[i]), v(FanHighRegs[i]))
        rpm(i) == IF legacy THEN CountToRPM(count(i)) ELSE Count16ToRPM(count(i))
    IN  [data |->
            [voltages |-> <<Millivolts(v(IT87_REG_VIN0), 1), Millivolts(v(IT87_REG_VIN1), 1),
                            Millivolts(v(IT87_REG_VIN2), 1), Scale168(v(IT87_REG_VIN3), fp),
                            Millivolts(v(IT87_REG_VIN4), 4), Millivolts(v(IT87_REG_VIN5), 1),
                            Millivolts(v(IT87_REG_VIN6), 1), Scale168(v(IT87_REG_VIN7), fp),
                            Millivolts(v(IT87_REG_VBAT), 1)>>,
             temps |-> <<ToInt16(TwosComplement(v(IT87_REG_TEMP0))),
                         ToInt16(TwosComplement(v(IT87_REG_TEMP1))),
                         ToInt16(TwosComplement(v(IT87_REG_TEMP2)))>>,
             fans |-> IF legacy
                      THEN <<ToInt16(rpm(1)), ToInt16(rpm(2)), ToInt16(rpm(3)),
                             d.fans[4], d.fans[5]>>
                      ELSE <<ToInt16(rpm(1)), ToInt16(rpm(2)), ToInt16(rpm(3)),
                             ToInt16(rpm(4)), ToInt16(rpm(5))>>],
         calc |-> [i \in 1..(IF legacy THEN 3 ELSE 5) |-> [count |-> count(i), rpm |-> rpm(i)]]]

\* what it87_refresh leaves: the chip, the port log, data and the fan results
Refreshed(fin, snap) ==
    [data |-> snap.data, calc |-> snap.calc, hw |-> fin.hw, log |-> fin.log, val |-> 0]

RefreshDone(fin, d, chip, base, b) ==
    Refreshed(fin, Decode(DataReads(fin.log, base), SensorReads(chip, b.order),
                          d, IsLegacy(chip), b.fp))

\* it87_refresh(data): [data, calc, hw, log, val]
it87_refresh(m, d, chip, base, b) ==
    RefreshDone(RefreshIO(m, chip, base, b.order), d, chip, base, b)

-----------------------------------------------------------------------------
(* Driver and device hooks.  Each action is one call of a hook by the       *)
(* kernel, from entry to return.                                            *)

MaxLoads == 2

\* the clients that may be inside a device hook at the same time
Clients == {"a", "b"}
\* a client outside every hook
Idle == [job |-> "none", prog |-> <<>>, pc |-> 0, val |-> 0, sel |-> <<>>, torn |-> FALSE,
         polled |-> FALSE, unpolled |-> {}, got |-> <<>>]

Machine(h) == [hw |-> h, log |-> <<>>, val |-> 0]
Returned(op, status, refreshed) == [op |-> op, status |-> status, refreshed |-> refreshed]

\* IT87_REG_CONFIG as read_indexed(gBaseAddress, IT87_REG_CONFIG) reaches it
ConfigReg(h) == h.win[0].regs[IT87_REG_CONFIG]

ZeroData == [temps |-> <<0, 0, 0>>, fans |-> <<0, 0, 0, 0, 0>>,
             voltages |-> <<0, 0, 0, 0, 0, 0, 0, 0, 0>>]
JunkData == [temps |-> <<-1, 77, 300>>, fans |-> <<1, 2, 3, 1234, -5>>,
             voltages |-> <<9, 8, 7, 6, 5, 4, 3, 2, 1>>]
\* what a caller's buffer, or an uninitialised local, may hold
Buffers == {ZeroData, JunkData}

\* get_module(B_ISA_MODULE_NAME, &gISA) succeeds or not: `got`
init_hardware(got) ==
    /\ phase = "unloaded"
    /\ UNCHANGED <<threads, gOpenCount, cookies>>
    /\ loads < MaxLoads
    /\ loads' = loads + 1
    /\ UNCHANGED <<gBaseAddress, build, data, pre, calc, out>>
    /\ IF ~got
       THEN /\ ret' = Returned("init_hardware", "ENOSYS", FALSE)
            /\ log' = <<>>
            /\ UNCHANGED <<gChipID, hw, phase, refs>>
       ELSE \E r \in {it87xx_detect(Machine(hw), build.order)} :
            /\ gChipID' = r.val
            /\ hw' = r.hw
            /\ log' = r.log
            /\ IF r.val = 0
               THEN /\ ret' = Returned("init_hardware", "B_DEVICE_NOT_FOUND", FALSE)
                    /\ refs' = refs + 1
                    /\ phase' = "unloaded"
               ELSE /\ ret' = Returned("init_hardware", "B_OK", FALSE)
                    /\ refs' = refs
                    /\ phase' = "probed"

\* a variant that writes 7 to the tachometer enable register
InitDriverSetup_Overwrite(m, chip, base) ==
    LET vendor == ITESensorRead(m, base, IT87_REG_ITE_VENDOR_ID)
        core == ITESensorRead(vendor, base, IT87_REG_CORE_ID)
        rev == ITESensorRead(core, base, IT87_CONFIG_SELECT_CHIP_VER)
    IN  IF ~IsLegacy(chip)
        THEN LET en == ITESensorRead(rev, base, IT87_REG_FAN_16BITS)
             IN  ITESensorWrite(en, base, IT87_REG_FAN_16BITS, 7)
        ELSE rev

\* the identification reads and the 16-bit tachometer enable of init_driver
InitDriverSetup(m, chip, base) ==
    LET vendor == ITESensorRead(m, base, IT87_REG_ITE_VENDOR_ID)
        core == ITESensorRead(vendor, base, IT87_REG_CORE_ID)
        rev == ITESensorRead(core, base, IT87_CONFIG_SELECT_CHIP_VER)
    IN  IF ~IsLegacy(chip)
        THEN LET en == ITESensorRead(rev, base, IT87_REG_FAN_16BITS)
             IN  ITESensorWrite(en, base, IT87_REG_FAN_16BITS, BitOr(en.val, 7))
        ELSE rev

\* a variant that does not check the resolved address
init_driver_NoCheck(got) ==
    /\ phase = "probed"
    /\ UNCHANGED <<threads, gOpenCount, cookies>>
    /\ UNCHANGED <<gChipID, build, loads, data, pre, calc, out>>
    /\ IF ~got
       THEN /\ ret' = Returned("init_driver", "ENOSYS", FALSE)
            /\ log' = <<>>
            /\ phase' = "unloaded"
            /\ UNCHANGED <<gBaseAddress, hw, refs>>
       ELSE \E r \in {find_isa_port_address(Machine(hw))} :
            \E s \in {InitDriverSetup(r, gChipID, r.val)} :
            /\ gBaseAddress' = r.val
            /\ refs' = refs + 1
            /\ ret' = Returned("init_driver", "B_OK", FALSE)
            /\ hw' = s.hw
            /\ log' = s.log
            /\ phase' = "loaded"

init_driver(got) ==
    /\ phase = "probed"
    /\ UNCHANGED <<threads, gOpenCount, cookies>>
    /\ UNCHANGED <<gChipID, build, loads, data, pre, calc, out>>
    /\ IF ~got
       THEN /\ ret' = Returned("init_driver", "ENOSYS", FALSE)
            /\ log' = <<>>
            /\ phase' = "unloaded"
            /\ UNCHANGED <<gBaseAddress, hw, refs>>
       ELSE \E r \in {find_isa_port_address(Machine(hw))} :
            /\ gBaseAddress' = r.val
            /\ refs' = refs + 1
            /\ IF r.val = 0
               THEN /\ ret' = Returned("init_driver", "ENOSYS", FALSE)
                    /\ hw' = r.hw
                    /\ log' = r.log
                    /\ phase' = "unloaded"
               ELSE \E s \in {InitDriverSetup(r, gChipID, r.val)} :
                    /\ ret' = Returned("init_driver", "B_OK", FALSE)
                    /\ hw' = s.hw
                    /\ log' = s.log
                    /\ phase' = "loaded"

uninit_driver ==
    /\ phase = "loaded"
    /\ UNCHANGED <<threads, gOpenCount, cookies>>
    /\ refs' = refs - 1
    /\ phase' = "unloaded"
    /\ ret' = Returned("uninit_driver", "void", FALSE)
    /\ log' = <<>>
    /\ UNCHANGED <<gChipID, gBaseAddress, hw, build, loads, data, pre, calc, out>>

\* device_open, device_close, device_free and device_write touch nothing
TrivialHook(op, status) ==
    /\ phase = "loaded"
    /\ UNCHANGED <<threads, gOpenCount, cookies>>
    /\ ret' = Returned(op, status, FALSE)
    /\ log' = <<>>
    /\ UNCHANGED <<gChipID, gBaseAddress, hw, build, phase, refs, loads, data, pre, calc, out>>

device_open == TrivialHook("device_open", "B_OK")
device_close == TrivialHook("device_close", "B_OK")
device_free == TrivialHook("device_free", "B_OK")
device_write == TrivialHook("device_write", "B_NOT_ALLOWED")

\* device_control(cookie, operation, args, length): `buf` is what args points
\* to, copyIn and copyOut whether the two user_memcpy calls succeed
device_control(sensorsRead, buf, copyIn, copyOut) ==
    /\ phase = "loaded"
    /\ UNCHANGED <<threads, gOpenCount, cookies>>
    /\ UNCHANGED <<gChipID, gBaseAddress, build, phase, refs, loads, out>>
    /\ IF ~sensorsRead
       THEN /\ ret' = Returned("device_control", "B_BAD_VALUE", FALSE)
            /\ log' = <<>>
            /\ UNCHANGED <<hw, data, pre, calc>>
       ELSE IF ~copyIn
       THEN /\ ret' = Returned("device_control", "B_BAD_ADDRESS", FALSE)
            /\ log' = <<>>
            /\ UNCHANGED <<hw, data, pre, calc>>
       ELSE \E r \in {it87_refresh(Machine(hw), buf, gChipID, gBaseAddress, build)} :
            /\ hw' = r.hw
            /\ log' = r.log
            /\ calc' = r.calc
            /\ pre' = [buf |-> buf, cfg |-> ConfigReg(hw)]
            /\ data' = IF copyOut THEN r.data ELSE buf
            /\ ret' = Returned("device_control",
                               IF copyOut THEN "B_OK" ELSE "B_BAD_ADDRESS", TRUE)

\* OutFloat's (value / scale), (value % scale) of an int16 passed as uint:
\* a negative value v arrives as 2^32 + v = 4294967 * 1000 + (296 + v)
OutFloat(label, value) ==
    IF value >= 0 THEN <<label, value \div 1000, value % 1000>>
    ELSE <<label, 4294967 + ((296 + value) \div 1000), (296 + value) % 1000>>
OutInt(label, value) == <<label, value>>

\* the text device_read renders from a snapshot, line by line
Render(d, chip) ==
    <<OutFloat("VIN0", d.voltages[1]), OutFloat("VIN1", d.voltages[2]),
      OutFloat("VIN2", d.voltages[3]), OutFloat("VIN3", d.voltages[4]),
      OutFloat("VIN4", d.voltages[5]), OutFloat("VIN5", d.voltages[6]),
      OutFloat("VIN6", d.voltages[7]), OutFloat("VIN7", d.voltages[8]),
      OutFloat("VBAT", d.voltages[9]),
      OutInt("TEMP0", d.temps[1]), OutInt("TEMP1", d.temps[2]), OutInt("TEMP2", d.temps[3]),
      OutInt("FAN1", d.fans[1]), OutInt("FAN2", d.fans[2]), OutInt("FAN3", d.fans[3])>>
    \o (IF ~IsLegacy(chip)
        THEN <<OutInt("FAN4", d.fans[4]), OutInt("FAN5", d.fans[5])>>
        ELSE <<>>)

\* device_read(cookie, position, buffer, num_bytes): `local` is what the
\* uninitialised it87_sensors_data on the stack holds
device_read(numBytes, position, local) ==
    /\ phase = "loaded"
    /\ UNCHANGED <<threads, gOpenCount, cookies>>
    /\ UNCHANGED <<gChipID, gBaseAddress, build, phase, refs, loads>>
    /\ IF numBytes < 1
       THEN /\ ret' = Returned("device_read", "B_IO_ERROR", FALSE)
            /\ log' = <<>>
            /\ UNCHANGED <<hw, data, pre, calc, out>>
       ELSE IF position # 0
       THEN /\ ret' = Returned("device_read", "B_OK", FALSE)
            /\ log' = <<>>
            /\ out' = <<>>
            /\ UNCHANGED <<hw, data, pre, calc>>
       ELSE \E r \in {it87_refresh(Machine(hw), local, gChipID, gBaseAddress, build)} :
            /\ hw' = r.hw
            /\ log' = r.log
            /\ calc' = r.calc
            /\ pre' = [buf |-> local, cfg |-> ConfigReg(hw)]
            /\ data' = r.data
            /\ out' = Render(r.data, gChipID)
            /\ ret' = Returned("device_read", "B_OK", TRUE)

-----------------------------------------------------------------------------
(* A hook one port access at a time.  The kernel may run a device hook for  *)
(* several clients at once: the driver takes no lock and device_open lets   *)
(* every client in.  A hook is then a program, the sequence of port         *)
(* accesses its code makes, and a client inside it is at one of them.       *)
(*   out   write_io_8(port, v)                                              *)
(*   in    val = read_io_8(port)                                            *)
(*   outv  write_io_8(port, f(val)) with val the value read last            *)
(*   poll  while (read_io_8(port) & IT87_BUSY) spin(IT87_WAIT);             *)

Out(port, v) == [op |-> "out", port |-> U16(port), v |-> U8(v)]
In(port) == [op |-> "in", port |-> U16(port)]
OutVal(port, f) == [op |-> "outv", port |-> U16(port), f |-> f]
Poll(port) == [op |-> "poll", port |-> U16(port)]

\* the value an outv writes
Modified(f, value) ==
    CASE f = "enable" -> ConfigEnable(value)
      [] f = "disable" -> ConfigDisable(value)
      [] f = "exit" -> BitOr(value, 2)

ProgEnter == <<Out(CFG_PORT, KEY_1), Out(CFG_PORT, KEY_2), Out(CFG_PORT, KEY_3), Out(CFG_PORT, KEY_4)>>
\* write_indexed(port, reg, f(read_indexed(port, reg)))
ProgModify(port, reg, f) == <<Out(port, reg), In(port + 1), Out(port, reg), OutVal(port + 1, f)>>
ProgExit == ProgModify(CFG_PORT, CFG_CONTROL, "exit")
ProgConfig(base, enable) == ProgModify(base, IT87_REG_CONFIG, IF enable THEN "enable" ELSE "disable")
ProgSensorRead(base, reg) ==
    <<Out(base + IT87_ADDR_PORT_OFFSET, reg), In(base + IT87_DATA_PORT_OFFSET)>>

RECURSIVE ProgReads(_, _, _)
ProgReads(base, regs, i) ==
    IF i > Len(regs) THEN <<>>
    ELSE ProgSensorRead(base, regs[i]) \o ProgReads(base, regs, i + 1)

\* the port accesses of it87_refresh
RefreshProgram(chip, base, order) ==
    ProgEnter \o ProgConfig(base, TRUE) \o ProgReads(base, SensorReads(chip, order), 1)
    \o ProgConfig(base, FALSE) \o ProgExit

\* a variant that reads without polling
ProgSensorReadValue_NoPoll(base, reg) == ProgSensorRead(base, reg)

\* ITESensorReadValue (it87_driver.c): poll, then ITESensorRead
ProgSensorReadValue(base, reg) ==
    <<Poll(base + IT87_ADDR_PORT_OFFSET)>> \o ProgSensorRead(base, reg)

RECURSIVE ProgReadValues(_, _, _)
ProgReadValues(base, regs, i) ==
    IF i > Len(regs) THEN <<>>
    ELSE ProgSensorReadValue(base, regs[i]) \o ProgReadValues(base, regs, i + 1)

\* the registers it87_read reads, in order
ReadRegs == VoltageRegs \o TempRegs \o <<IT87_REG_FAN_1, IT87_REG_FAN_2, IT87_REG_FAN_3>>

\* the port accesses of it87_read (it87_driver.c)
ReadProgram(base) ==
    ProgEnter \o ProgConfig(base, TRUE) \o ProgReadValues(base, ReadRegs, 1)
    \o ProgConfig(base, FALSE) \o ProgExit

\* the content of register `idx` behind address port `port`
Selected(h, port, idx) ==
    IF port = CFG_PORT THEN CfgRead(h, idx)
    ELSE IF EcOffset(h, port) \in AddrOffsets /\ idx \in EcRegs
         THEN h.win[EcOffset(h, port)].regs[idx]
         ELSE ByteMax

\* client state after a write of v to `port`: v is the index it selected there
Wrote(t, port, v) ==
    [t EXCEPT !.pc = @ + 1,
              !.sel = [q \in DOMAIN t.sel \cup {port} |-> IF q = port THEN v ELSE t.sel[q]]]

\* `port` is a data port of the EC's window
IsRuntimeData(h, port) == EcOffset(h, port) - 1 \in AddrOffsets

\* client state after a read of `port` returned `value`; the read is torn when
\* the client selected a register at port - 1 and got another register's value,
\* and unpolled when it reads a runtime register without the client having
\* seen the busy flag clear since its last runtime read
ReadBack(t, h, port, value) ==
    [t EXCEPT !.pc = @ + 1,
              !.val = value,
              !.torn = IF port - 1 \in DOMAIN t.sel
                       THEN value # Selected(h, port - 1, t.sel[port - 1])
                       ELSE FALSE,
              !.unpolled = IF IsRuntimeData(h, port) /\ ~t.polled THEN @ \cup {port} ELSE @,
              !.polled = IF IsRuntimeData(h, port) THEN FALSE ELSE @,
              !.got = IF t.job = "it87_read" /\ port - 1 \in DOMAIN t.sel
                         /\ EcOffset(h, port) = IT87_DATA_PORT_OFFSET
                      THEN Append(@, <<t.sel[port - 1], value>>) ELSE @]

\* client state after a poll read `value`: it stays at the poll while the flag is set
PolledBy(t, value) ==
    IF TestBit(value, 7) THEN t
    ELSE [t EXCEPT !.pc = @ + 1, !.polled = TRUE]

\* the states of the busy flag the chip may enter after a runtime register was read
MaxBusy == 2
Rearm(h) == IF h.flag THEN (-1)..MaxBusy ELSE {0}

\* the port accesses of a hook, as the driver's globals make them
Program(job) ==
    CASE job = "it87_refresh" -> RefreshProgram(gChipID, gBaseAddress, build.order)
      [] job = "it87_read" -> ReadProgram(gBaseAddress)
      [] OTHER -> <<>>

\* a client at the first port access of a hook
Entered(job) == [Idle EXCEPT !.job = job, !.prog = Program(job), !.pc = 1]

HookFrame == UNCHANGED <<gChipID, gBaseAddress, build, phase, refs, loads, data, pre, calc, log, gOpenCount, cookies>>
StepFrame == HookFrame /\ UNCHANGED <<out, ret>>

\* client c enters it87_refresh, from device_control or device_read
CallRefresh(c) ==
    /\ phase = "loaded"
    /\ threads[c].job = "none"
    /\ threads' = [threads EXCEPT ![c] = Entered("it87_refresh")]
    /\ UNCHANGED hw
    /\ StepFrame

\* client c makes its next port access
PortAccess(c) ==
    /\ threads[c].job # "none"
    /\ threads[c].pc <= Len(threads[c].prog)
    /\ StepFrame
    /\ \E t \in {threads[c]} : \E i \in {t.prog[t.pc]} :
          CASE i.op = "out" ->
                  /\ hw' = HwWrite(hw, i.port, i.v)
                  /\ threads' = [threads EXCEPT ![c] = Wrote(t, i.port, i.v)]
            [] i.op = "outv" ->
                  /\ hw' = HwWrite(hw, i.port, Modified(i.f, t.val))
                  /\ threads' = [threads EXCEPT ![c] = Wrote(t, i.port, Modified(i.f, t.val))]
            [] i.op = "in" ->
                  /\ \E n \in (IF IsRuntimeData(hw, i.port) THEN Rearm(hw) ELSE {hw.busy}) :
                        hw' = [hw EXCEPT !.busy = n]
                  /\ threads' = [threads EXCEPT ![c] = ReadBack(t, hw, i.port, HwRead(hw, i.port))]
            [] i.op = "poll" ->
                  /\ hw' = Polled(hw)
                  /\ threads' = [threads EXCEPT ![c] = PolledBy(t, HwRead(hw, i.port))]

\* myprintf's two uint8 arguments for a reading of v millivolts
OutMilli(label, v) == <<label, U8(v \div 1000), U8(v % 1000)>>

\* the lines it87_read prints from the 15 values read
ReadLines(got) ==
    <<OutMilli("VIN0", got[1][2] * 16), OutMilli("VIN1", got[2][2] * 16),
      OutMilli("VIN2", got[3][2] * 16), OutMilli("VIN3", got[4][2] * 16),
      OutMilli("VIN4", got[5][2] * 16 * 4), OutMilli("VIN5", got[6][2] * 16),
      OutMilli("VIN6", got[7][2] * 16 * 3), OutMilli("VIN7", got[8][2] * 16),
      OutMilli("VBAT", got[9][2] * 16),
      OutInt("TEMP0", got[10][2]), OutInt("TEMP1", got[11][2]), OutInt("TEMP2", got[12][2]),
      OutInt("FAN1", CountToRPM(got[13][2])), OutInt("FAN2", CountToRPM(got[14][2])),
      OutInt("FAN3", CountToRPM(got[15][2]))>>

\* client c returns from the hook
Return(c) ==
    /\ threads[c].job # "none"
    /\ threads[c].pc > Len(threads[c].prog)
    /\ threads' = [threads EXCEPT ![c] = Idle]
    /\ UNCHANGED hw
    /\ HookFrame
    /\ IF threads[c].job = "it87_read"
       THEN /\ out' = ReadLines(threads[c].got)
            /\ ret' = Returned("it87_read", "B_OK", TRUE)
       ELSE UNCHANGED <<out, ret>>

\* it87_read(cookie, pos, data, num_bytes) called by client c (it87_driver.c)
it87_read(c, pos) ==
    /\ phase = "loaded"
    /\ threads[c].job = "none"
    /\ UNCHANGED hw
    /\ HookFrame
    /\ IF pos > 175
       THEN /\ out' = <<>>
            /\ ret' = Returned("it87_read", "B_OK", FALSE)
            /\ UNCHANGED threads
       ELSE /\ threads' = [threads EXCEPT ![c] = Entered("it87_read")]
            /\ UNCHANGED <<out, ret>>

-----------------------------------------------------------------------------
(* Loading the older driver (it87_driver.c). Its hooks carry the file's name
   where the newer driver has a hook of the same name. *)

\* the low ID bytes is_it87xx_present accepts after a high byte of 0x87
PresentLow == {5, 18, 22, 24}

PresentResult(m, found, chip) == [hw |-> m.hw, log |-> m.log, val |-> found, chip |-> chip]

\* m has read the low ID byte; gChipID is a uint8 and takes that byte
PresentLowByte(m, chip) ==
    IF m.val \in PresentLow
    THEN PresentResult(exit_mb_pnp_mode(m), TRUE, U8(m.val))
    ELSE PresentResult(exit_mb_pnp_mode(m), FALSE, chip)

\* m has read the high ID byte
PresentHighByte(m, chip) ==
    IF m.val = 135
    THEN PresentLowByte(read_indexed(m, CFG_PORT, CFG_CHIP_ID_LO), chip)
    ELSE PresentResult(exit_mb_pnp_mode(m), FALSE, chip)

\* is_it87xx_present(): val is its result, chip is gChipID afterwards
is_it87xx_present(m, chip) ==
    PresentHighByte(read_indexed(enter_mb_pnp_mode(m), CFG_PORT, CFG_CHIP_ID_HI), chip)

\* init_hardware of it87_driver.c
it87_driver_init_hardware(got) ==
    /\ phase = "unloaded"
    /\ loads < MaxLoads
    /\ loads' = loads + 1
    /\ UNCHANGED <<gBaseAddress, build, data, pre, calc, out, threads, gOpenCount, cookies>>
    /\ IF ~got
       THEN /\ ret' = Returned("init_hardware", "ENOSYS", FALSE)
            /\ log' = <<>>
            /\ UNCHANGED <<gChipID, hw, phase, refs>>
       ELSE \E r \in {is_it87xx_present(Machine(hw), gChipID)} :
            /\ gChipID' = r.chip
            /\ hw' = r.hw
            /\ log' = r.log
            /\ IF ~r.val
               THEN /\ ret' = Returned("init_hardware", "ENODEV", FALSE)
                    /\ refs' = refs + 1
                    /\ phase' = "unloaded"
               ELSE /\ ret' = Returned("init_hardware", "B_OK", FALSE)
                    /\ refs' = refs
                    /\ phase' = "probed"

\* init_driver of it87_driver.c
it87_driver_init_driver(got) ==
    /\ phase = "probed"
    /\ UNCHANGED <<gChipID, build, loads, data, pre, calc, out, threads, cookies>>
    /\ IF ~got
       THEN /\ ret' = Returned("init_driver", "ENOSYS", FALSE)
            /\ log' = <<>>
            /\ phase' = "unloaded"
            /\ UNCHANGED <<gBaseAddress, hw, refs, gOpenCount>>
       ELSE \E r \in {find_isa_port_address(Machine(hw))} :
            /\ gBaseAddress' = r.val
            /\ refs' = refs + 1
            /\ hw' = r.hw
            /\ log' = r.log
            /\ IF r.val = 0
               THEN /\ ret' = Returned("init_driver", "ENOSYS", FALSE)
                    /\ phase' = "unloaded"
                    /\ UNCHANGED gOpenCount
               ELSE /\ ret' = Returned("init_driver", "B_OK", FALSE)
                    /\ phase' = "loaded"
                    /\ gOpenCount' = 0

\* uninit_driver of it87_driver.c
it87_driver_uninit_driver ==
    /\ phase = "loaded"
    /\ \A c \in Clients : threads[c].job = "none"
    /\ \A c \in Clients : cookies[c] = "none"
    /\ refs' = refs - 1
    /\ phase' = "unloaded"
    /\ ret' = Returned("uninit_driver", "void", FALSE)
    /\ log' = <<>>
    /\ UNCHANGED <<gChipID, gBaseAddress, hw, build, loads, data, pre, calc, out, threads, gOpenCount, cookies>>

\* the clients whose open of the device succeeded and has not been freed
Holders == {c \in Clients : cookies[c] # "none"}

\* a device hook of it87_driver.c called by client c: what it leaves alone
OpenFrame ==
    UNCHANGED <<gChipID, gBaseAddress, hw, build, phase, refs, loads, data, pre, calc, out, threads>>

\* a variant that counts the opens and admits every client
it87_open_Counting(c, named) ==
    /\ phase = "loaded"
    /\ cookies[c] = "none"
    /\ OpenFrame
    /\ log' = <<>>
    /\ IF ~named
       THEN /\ ret' = Returned("it87_open", "B_BAD_VALUE", FALSE)
            /\ UNCHANGED <<gOpenCount, cookies>>
       ELSE /\ gOpenCount' = gOpenCount + 1
            /\ ret' = Returned("it87_open", "B_OK", FALSE)
            /\ cookies' = [cookies EXCEPT ![c] = "open"]

\* it87_open(name, flags, cookie) called by client c; `named`: name is the
\* published device name.  atomic_or is the hook's one access to shared
\* state, so the hook is one step.
it87_open(c, named) ==
    /\ phase = "loaded"
    /\ cookies[c] = "none"
    /\ OpenFrame
    /\ log' = <<>>
    /\ IF ~named
       THEN /\ ret' = Returned("it87_open", "B_BAD_VALUE", FALSE)
            /\ UNCHANGED <<gOpenCount, cookies>>
       ELSE /\ gOpenCount' = BitOr(gOpenCount, 1)
            /\ IF TestBit(gOpenCount, 0)
               THEN /\ ret' = Returned("it87_open", "B_BUSY", FALSE)
                    /\ UNCHANGED cookies
               ELSE /\ ret' = Returned("it87_open", "B_OK", FALSE)
                    /\ cookies' = [cookies EXCEPT ![c] = "open"]

\* it87_close(cookie): the kernel calls it once for an open that succeeded
it87_close(c) ==
    /\ phase = "loaded"
    /\ cookies[c] = "open"
    /\ OpenFrame
    /\ log' = <<>>
    /\ ret' = Returned("it87_close", "B_OK", FALSE)
    /\ cookies' = [cookies EXCEPT ![c] = "closed"]
    /\ UNCHANGED gOpenCount

\* it87_free(cookie): the kernel calls it once, after it87_close
it87_free(c) ==
    /\ phase = "loaded"
    /\ cookies[c] = "closed"
    /\ OpenFrame
    /\ log' = <<>>
    /\ ret' = Returned("it87_free", "B_OK", FALSE)
    /\ cookies' = [cookies EXCEPT ![c] = "none"]
    /\ gOpenCount' = ClearBit(gOpenCount, 0)

-----------------------------------------------------------------------------
(* Initial states: the chip as the firmware left it, nothing loaded.        *)

\* contents of the EC's sensor registers that differ from register to register
DefaultRaw(r) == (r * 37 + 11) % 256
Pattern(reg, v) == [r \in EcRegs |-> IF r = reg THEN v ELSE DefaultRaw(r)]

\* logical device 0 (the floppy controller) keeps its own base address
OtherDev == [act |-> 1, bh |-> 3, bl |-> 240]

Chip(id, ldn, act, base, cfg, sens) ==
    [key |-> 0, cidx |-> 0, cc |-> 0, ldn |-> ldn,
     id |-> <<id \div 256, id % 256>>,
     dev |-> (0 :> OtherDev) @@ (LDN_EC :> [act |-> act, bh |-> base \div 256, bl |-> base % 256]),
     win |-> (0 :> [idx |-> 0, regs |-> [r \in EcRegs |-> IF r = IT87_REG_CONFIG THEN cfg ELSE 0]])
             @@ (IT87_ADDR_PORT_OFFSET :> [idx |-> 0, regs |-> sens]),
     flag |-> FALSE, busy |-> 0]

InitWith(chips, builds) ==
    /\ hw \in chips
    /\ build \in builds
    /\ gChipID = 0
    /\ gBaseAddress = 0
    /\ phase = "unloaded"
    /\ refs = 0
    /\ loads = 0
    /\ data = ZeroData
    /\ pre = [buf |-> ZeroData, cfg |-> 0]
    /\ calc = <<>>
    /\ out = <<>>
    /\ log = <<>>
    /\ ret = Returned("none", "B_OK", FALSE)
    /\ threads = [c \in Clients |-> Idle]
    /\ gOpenCount = 0
    /\ cookies = [c \in Clients |-> "none"]

IT8728 == 34600
IT8716 == 34582
DEFAULT_BASE == 656
LrDouble == [fp |-> "double", order |-> "lr"]
RlExtended == [fp |-> "extended", order |-> "rl"]

\* The driver's life cycle on a few chips: two supported ones (8-bit and
\* 16-bit tachometers), an unsupported one, and no chip at all.
MainIDs == {IT8705, IT8728, IT8716, 65535}
MainChips ==
    {Chip(id, ldn, act, base, cfg, Pattern(IT87_REG_FAN_16BITS, 80)) :
        id \in MainIDs, ldn \in {0, LDN_EC}, act \in {0, 1},
        base \in {DEFAULT_BASE, 0}, cfg \in {18, 83}}

Init == InitWith(MainChips, Builds)

Next ==
    \/ \E got \in BOOLEAN : init_hardware(got)
    \/ \E got \in BOOLEAN : init_driver(got)
    \/ uninit_driver
    \/ device_open
    \/ device_close
    \/ device_free
    \/ device_write
    \/ \E sensorsRead, copyIn, copyOut \in BOOLEAN, buf \in Buffers :
          device_control(sensorsRead, buf, copyIn, copyOut)
    \/ \E numBytes \in {0, 512}, position \in {0, 1}, local \in Buffers :
          device_read(numBytes, position, local)

Spec == Init /\ [][Next]_vars

\* Detection on every 16-bit identification value.
AllIDChips == {Chip(id, 0, 1, DEFAULT_BASE, 18, Pattern(IT87_REG_VIN0, 0)) : id \in 0..65535}

InitDetect == InitWith(AllIDChips, {LrDouble})

NextDetect ==
    \/ \E got \in BOOLEAN : init_hardware(got)
    \/ init_driver(TRUE)
    \/ uninit_driver
    \/ device_control(TRUE, ZeroData, TRUE, TRUE)

SpecDetect == InitDetect /\ [][NextDetect]_vars

\* One telemetry request on every raw register content, one dimension at a
\* time: every byte in all sensor registers at once, every 16-bit fan count
\* with its low or its high byte from a short list, and every value of the
\* configuration register.
Uniform(v) == [r \in EcRegs |-> v]
FanCount(lo, hi) ==
    [r \in EcRegs |-> IF r \in Range(FanLowRegs) THEN lo
                      ELSE IF r \in Range(FanHighRegs) THEN hi
                      ELSE DefaultRaw(r)]
LowSamples == {0, 1, 70, 254, ByteMax}
HighSamples == {0, 1, 5, 128, ByteMax}
SweepChips ==
    {Chip(id, 0, 1, DEFAULT_BASE, 18, Uniform(v)) : id \in {IT8705, IT8728}, v \in Byte}
    \cup {Chip(IT8728, 0, 1, DEFAULT_BASE, 18, FanCount(lo, hi)) : lo \in Byte, hi \in HighSamples}
    \cup {Chip(IT8728, 0, 1, DEFAULT_BASE, 18, FanCount(lo, hi)) : lo \in LowSamples, hi \in Byte}
    \cup {Chip(id, 0, 1, DEFAULT_BASE, cfg, Pattern(IT87_REG_VIN0, 0)) :
            id \in {IT8705, IT8728}, cfg \in Byte}

InitSweep == InitWith(SweepChips, {LrDouble, RlExtended})

NextSweep ==
    \/ init_hardware(TRUE)
    \/ init_driver(TRUE)
    \/ device_control(TRUE, ZeroData, TRUE, TRUE)

SpecSweep == InitSweep /\ [][NextSweep]_vars

\* Two clients in it87_refresh at once, on a loaded driver.
Loaded(h, order) ==
    LET found == it87xx_detect(Machine(h), order)
        base == find_isa_port_address(Machine(found.hw))
    IN  [chip |-> found.val, base |-> base.val,
         hw |-> InitDriverSetup(Machine(base.hw), found.val, base.val).hw]

ConcChips == {Chip(id, 0, 1, DEFAULT_BASE, 18, Pattern(IT87_REG_VIN0, 0)) : id \in {IT8705}}

InitConc ==
    /\ build \in {LrDouble}
    /\ \E h \in ConcChips : \E l \in {Loaded(h, build.order)} :
          /\ hw = l.hw
          /\ gChipID = l.chip
          /\ gBaseAddress = l.base
    /\ phase = "loaded"
    /\ refs = 1
    /\ loads = 1
    /\ data = ZeroData
    /\ pre = [buf |-> ZeroData, cfg |-> 0]
    /\ calc = <<>>
    /\ out = <<>>
    /\ log = <<>>
    /\ ret = Returned("init_driver", "B_OK", FALSE)
    /\ threads = [c \in Clients |-> Idle]
    /\ gOpenCount = 0
    /\ cookies = [c \in Clients |-> "none"]

NextConc ==
    \/ \E c \in Clients : CallRefresh(c)
    \/ \E c \in Clients : PortAccess(c)
    \/ \E c \in Clients : Return(c)

SpecConc == InitConc /\ [][NextConc]_vars

\* The older driver on every 16-bit identification value.
InitOld == InitWith(AllIDChips, {LrDouble})

NextOld ==
    \/ \E got \in BOOLEAN : it87_driver_init_hardware(got)
    \/ \E got \in BOOLEAN : it87_driver_init_driver(got)
    \/ it87_driver_uninit_driver

SpecOld == InitOld /\ [][NextOld]_vars

\* Two clients opening and freeing the device of the older driver, over
\* loads and unloads of the driver.
OpenChips ==
    {Chip(id, 0, 1, base, cfg, Pattern(IT87_REG_VIN0, 0)) :
        id \in {IT8705, IT8712, IT8716, IT8728}, base \in {DEFAULT_BASE, 0}, cfg \in {18, 83}}

InitOpen == InitWith(OpenChips, {LrDouble})

NextOpen ==
    \/ it87_driver_init_hardware(TRUE)
    \/ it87_driver_init_driver(TRUE)
    \/ it87_driver_uninit_driver
    \/ \E c \in Clients, named \in BOOLEAN : it87_open(c, named)
    \/ \E c \in Clients : it87_close(c)
    \/ \E c \in Clients : it87_free(c)

SpecOpen == InitOpen /\ [][NextOpen]_vars

\* Address resolution on every content of the Environmental Controller's base
\* address registers, the controller inactive at first.
ResolveChips ==
    {Chip(IT8705, 0, 0, base, 18, Pattern(IT87_REG_VIN0, 0)) : base \in 0..65535}

InitResolve == InitWith(ResolveChips, {LrDouble})

NextResolve ==
    \/ it87_driver_init_hardware(TRUE)
    \/ it87_driver_init_driver(TRUE)

SpecResolve == InitResolve /\ [][NextResolve]_vars

\* One client in it87_read of the loaded older driver, one port access at a
\* time, on a chip whose address port carries the busy flag. The flag clears
\* after a bounded number of polls, or never (busy = -1).
LoadedOld(h) ==
    LET found == is_it87xx_present(Machine(h), 0)
        base == find_isa_port_address(Machine(found.hw))
    IN  [chip |-> found.chip, base |-> base.val, hw |-> base.hw]

Busy(h, n) == [h EXCEPT !.flag = TRUE, !.busy = n]

PollChips ==
    {Busy(Chip(id, 0, 1, DEFAULT_BASE, cfg, sens), n) :
        id \in {IT8705, IT8712}, cfg \in {18, 83},
        sens \in {Pattern(IT87_REG_VIN0, 0), Uniform(ByteMax)}, n \in (-1)..MaxBusy}

InitPoll ==
    /\ build \in {LrDouble}
    /\ \E h \in PollChips : \E l \in {LoadedOld(h)} :
          /\ hw = l.hw
          /\ gChipID = l.chip
          /\ gBaseAddress = l.base
    /\ phase = "loaded"
    /\ refs = 1
    /\ loads = 1
    /\ data = ZeroData
    /\ pre = [buf |-> ZeroData, cfg |-> 0]
    /\ calc = <<>>
    /\ out = <<>>
    /\ log = <<>>
    /\ ret = Returned("init_driver", "B_OK", FALSE)
    /\ threads = [c \in Clients |-> Idle]
    /\ gOpenCount = 0
    /\ cookies = [c \in Clients |-> "none"]

NextPoll ==
    \/ \E pos \in {0, 176} : it87_read("a", pos)
    \/ PortAccess("a")
    \/ Return("a")

SpecPoll == InitPoll /\ [][NextPoll]_vars

\* Every port access that can happen does, and a hook that can return does:
\* the thread inside the hook keeps running (spin() is a busy wait).
SpecPollFair == SpecPoll /\ WF_vars(PortAccess("a")) /\ WF_vars(Return("a"))

-----------------------------------------------------------------------------
(* Properties.                                                              *)

\* the raw content of sensor register `reg`, as ITESensorRead reaches it
Raw(reg) == hw.win[IT87_ADDR_PORT_OFFSET].regs[reg]
\* the last hook ran a refresh and handed its snapshot back
Delivered == ret.refreshed /\ ret.status = "B_OK"

\* places in an I/O log where the 4-byte key is written to the configuration port
EnterPositions(l) ==
    {i \in 1..(Len(l) - 3) : \A k \in 0..3 : l[i + k] = <<"out", CFG_PORT, PnPKey[k + 1]>>}
\* places where configuration register 0x02 is read and written back with bit 1 set
ExitPositions(l) ==
    {i \in 1..(Len(l) - 3) :
        /\ l[i] = <<"out", CFG_PORT, CFG_CONTROL>>
        /\ l[i + 1][1] = "in" /\ l[i + 1][2] = CFG_PORT + 1
        /\ l[i + 2] = <<"out", CFG_PORT, CFG_CONTROL>>
        /\ l[i + 3][1] = "out" /\ l[i + 3][2] = CFG_PORT + 1
        /\ l[i + 3][3] = SetBit(l[i + 1][3], 1)}
\* the last hook ran it87xx_detect, find_isa_port_address or it87_refresh
RanSession ==
    \/ ret.refreshed
    \/ ret.op = "init_hardware" /\ ret.status \in {"B_OK", "B_DEVICE_NOT_FOUND"}
    \/ ret.op = "init_driver" /\ ret.status = "B_OK"

\* C1: every hook that writes the unlock key to port 0x2E performs exactly one
\* exit (read-modify-write of register 0x02 setting bit 1) after it and before
\* it returns, and no hook leaves the chip in configuration mode.
C1_ReleaseOncePerAcquire ==
    /\ ~InPnPMode(hw)
    /\ Cardinality(EnterPositions(log)) = Cardinality(ExitPositions(log))
    /\ Cardinality(EnterPositions(log)) <= 1
    /\ \A e \in EnterPositions(log) : \A x \in ExitPositions(log) : x >= e + 4
    /\ RanSession => Cardinality(EnterPositions(log)) = 1

C1_Witness ==
    /\ ret.op = "device_read" /\ ret.refreshed
    /\ Cardinality(EnterPositions(log)) = 1
    /\ Cardinality(ExitPositions(log)) = 1
    /\ ~InPnPMode(hw)

Hex4(a, b, c, d) == ((a * 16 + b) * 16 + c) * 16 + d
TwelveIDs == {Hex4(8,6,2,5), Hex4(8,6,2,8), Hex4(8,6,5,5), Hex4(8,7,0,5),
              Hex4(8,7,1,2), Hex4(8,7,1,8), Hex4(8,7,2,0), Hex4(8,7,2,1),
              Hex4(8,7,2,6), Hex4(8,7,2,8), Hex4(8,7,7,1), Hex4(8,7,7,2)}
\* the identification value the chip holds in registers 0x20 and 0x21
ChipIdOf(h) == h.id[1] * 256 + h.id[2]

\* C2: it87xx_detect returns the identification value when it is one of the
\* twelve supported IDs and 0 otherwise, and init_hardware reports
\* B_DEVICE_NOT_FOUND exactly when that result is 0.
C2_DetectClosedSet ==
    (ret.op = "init_hardware" /\ ret.status # "ENOSYS") =>
        /\ gChipID = (IF ChipIdOf(hw) \in TwelveIDs THEN ChipIdOf(hw) ELSE 0)
        /\ (ret.status = "B_DEVICE_NOT_FOUND") <=> (gChipID = 0)
        /\ (ret.status = "B_OK") <=> (gChipID # 0)

C2_Witness ==
    /\ ret.op = "init_hardware" /\ ret.status = "B_OK"
    /\ ChipIdOf(hw) = Hex4(8,7,7,2) /\ gChipID = Hex4(8,7,7,2)

\* C3: every temperature a refresh stores is the raw byte read as a signed
\* 8-bit two's-complement value: v below 128, v - 256 from 128 on.
C3_TempsTwosComplement ==
    Delivered =>
        \A i \in 1..3 :
            data.temps[i] = (IF Raw(TempRegs[i]) < 128 THEN Raw(TempRegs[i])
                             ELSE Raw(TempRegs[i]) - 256)

\* C4 as claimed: on 8-bit tachometers count 255 gives 0 RPM, count 1 gives
\* the RPM of count 2, and count 152 gives 4443 RPM.
C4_AsClaimed ==
    (Delivered /\ IsLegacy(gChipID)) =>
        \A i \in 1..3 :
            /\ calc[i].count = 255 => calc[i].rpm = 0
            /\ calc[i].count = 1 => calc[i].rpm = 1350000 \div (2 * 2)
            /\ calc[i].count = 152 => calc[i].rpm = 4443

\* C4 amended: count 255 gives 0 RPM; counts below 2 are replaced by 152, so
\* counts 0 and 1 give the RPM of count 152; count 152 gives
\* floor(1350000 / (152 * 2)) = 4440 RPM.
C4_CountToRPM ==
    (Delivered /\ IsLegacy(gChipID)) =>
        \A i \in 1..3 :
            /\ calc[i].count = Raw(FanLowRegs[i])
            /\ calc[i].count = 255 => calc[i].rpm = 0 /\ data.fans[i] = 0
            /\ calc[i].count \in {0, 1, 152} => calc[i].rpm = 4440 /\ data.fans[i] = 4440

C4_Witness ==
    /\ Delivered /\ IsLegacy(gChipID)
    /\ Raw(IT87_REG_FAN_1) = 1 /\ data.fans[1] = 4440

\* C5: on chips with 16-bit tachometers each fan count is low register +
\* 256 * extended register, and its RPM is 0 for the counts 0, 255 and 0xFFFF
\* and floor(675000 / count) for every other count.
C5_Count16ToRPM ==
    (Delivered /\ ~IsLegacy(gChipID)) =>
        \A i \in 1..5 :
            /\ calc[i].count = Raw(FanLowRegs[i]) + 256 * Raw(FanHighRegs[i])
            /\ calc[i].rpm = (IF calc[i].count \in {0, 255, 65535} THEN 0
                              ELSE 675000 \div calc[i].count)
            /\ calc[i].rpm <= 32767 => data.fans[i] = calc[i].rpm

C5_Witness ==
    /\ Delivered /\ ~IsLegacy(gChipID)
    /\ Raw(IT87_REG_FAN_1) = 70 /\ Raw(IT87_REG_FAN_1_EXT) = 5
    /\ calc[1].count = 1350 /\ data.fans[1] = 500

X1Channels == {1, 2, 3, 6, 7, 9}

\* C6: a refresh stores raw * 16 mV in voltages[0], [1], [2], [5], [6], [8]
\* and raw * 16 * 4 mV in voltages[4], for every raw count.
C6_VoltagesLinear ==
    Delivered =>
        /\ \A i \in X1Channels : data.voltages[i] = Raw(VoltageRegs[i]) * 16
        /\ data.voltages[5] = Raw(IT87_REG_VIN4) * 16 * 4

C6_Witness ==
    /\ Delivered
    /\ Raw(IT87_REG_VIN0) = 255 /\ data.voltages[1] = 4080
    /\ Raw(IT87_REG_VIN4) = 255 /\ data.voltages[5] = 16320

X168Channels == {4, 8}
Rational168(raw) == (raw * 16 * 168) \div 100

\* C7 as claimed: voltages[3] and voltages[7] hold floor(raw * 16 * 168 / 100)
\* for every raw count, which at raw count 255 is 6849 mV.
C7_AsClaimed ==
    Delivered =>
        \A i \in X168Channels :
            /\ data.voltages[i] = Rational168(Raw(VoltageRegs[i]))
            /\ Raw(VoltageRegs[i]) = 255 => data.voltages[i] = 6849

\* C7 amended: voltages[3] and voltages[7] hold the truncated floating-point
\* product raw * 16 * 1.68.  That is floor(raw * 16 * 168 / 100) whenever the
\* product is rounded to double precision, and for every raw count that is
\* not a positive multiple of 25 when it is kept in extended precision, where
\* the positive multiples of 25 give one less; at raw count 255 it is 6854 mV.
C7_Scale168 ==
    Delivered =>
        \A i \in X168Channels :
            LET raw == Raw(VoltageRegs[i]) IN
            /\ data.voltages[i] =
                  (IF build.fp = "extended" /\ raw > 0 /\ raw % 25 = 0
                   THEN Rational168(raw) - 1 ELSE Rational168(raw))
            /\ raw = 255 => data.voltages[i] = 6854

C7_Witness ==
    /\ Delivered
    /\ Raw(IT87_REG_VIN3) = 255 /\ data.voltages[4] = 6854
    /\ Raw(IT87_REG_VIN7) = 255 /\ data.voltages[8] = 6854

\* C8: after a refresh bits 0 and 6 of the runtime configuration register
\* are clear and every other bit is as it was before the call.
C8_MonitoringDisabled ==
    ret.refreshed =>
        /\ ~TestBit(ConfigReg(hw), 0)
        /\ ~TestBit(ConfigReg(hw), 6)
        /\ \A k \in (0..7) \ {0, 6} : TestBit(ConfigReg(hw), k) <=> TestBit(pre.cfg, k)

C8_Witness ==
    /\ ret.refreshed
    /\ pre.cfg = 255 /\ ConfigReg(hw) = 190

\* C9 as claimed: the runtime configuration register holds after a refresh
\* the value it held before it, whatever that value was.
C9_AsClaimed == ret.refreshed => ConfigReg(hw) = pre.cfg

\* C9 amended: the runtime configuration register holds after a refresh the
\* value it held before it whenever bits 0 and 6 were clear before the call.
C9_RestoredWhenDisabled ==
    (ret.refreshed /\ ~TestBit(pre.cfg, 0) /\ ~TestBit(pre.cfg, 6)) =>
        ConfigReg(hw) = pre.cfg

C9_Witness ==
    /\ ret.refreshed
    /\ pre.cfg = 146 /\ ConfigReg(hw) = 146

\* C10: on the legacy chips a telemetry request leaves fans[3] and fans[4] of
\* the snapshot at zero, whatever the buffer held before the call.
C10_LegacyUnusedFansZero ==
    (Delivered /\ IsLegacy(gChipID)) => (data.fans[4] = 0 /\ data.fans[5] = 0)

\* C11: init_hardware returns B_DEVICE_NOT_FOUND when no supported chip ID is
\* read, init_driver returns an error whenever find_isa_port_address yields 0,
\* the two error statuses differ, and no refresh runs while gBaseAddress is 0.
C11_FailuresFatalAndDistinct ==
    /\ (ret.op = "init_hardware" /\ ret.status # "ENOSYS" /\ gChipID = 0)
          => (ret.status = "B_DEVICE_NOT_FOUND" /\ phase = "unloaded")
    /\ (ret.op = "init_hardware" /\ ret.status = "B_DEVICE_NOT_FOUND") => gChipID = 0
    /\ (ret.op = "init_driver" /\ gBaseAddress = 0)
          => (ret.status = "ENOSYS" /\ phase = "unloaded")
    /\ ret.op = "init_driver" => ret.status # "B_DEVICE_NOT_FOUND"
    /\ phase = "loaded" => (gChipID # 0 /\ gBaseAddress # 0)
    /\ ret.refreshed => gBaseAddress # 0

\* a supported chip whose EC has no base address: resolution fails
C11_Witness ==
    /\ ret.op = "init_driver" /\ ret.status = "ENOSYS"
    /\ gChipID = IT8728 /\ gBaseAddress = 0
    /\ Len(log) > 0

\* no client reads another register than the one it selected
NoTornRead == \A c \in Clients : ~threads[c].torn
\* at most one client is inside a hook
NoOverlap == \A c, d \in Clients : (threads[c].job # "none" /\ threads[d].job # "none") => c = d

\* C12: no two it87_refresh executions interleave their port accesses, and
\* every indexed read returns the register the reading client selected.
C12_RefreshSerialized == NoOverlap /\ NoTornRead

\* client "a" is inside it87_read / stands at a poll of the address port
InRead == threads["a"].job = "it87_read"
AtPoll == /\ InRead
          /\ threads["a"].pc <= Len(threads["a"].prog)
          /\ threads["a"].prog[threads["a"].pc].op = "poll"
\* it87_read has returned B_OK with monitoring disabled and the session released
ReadReturned ==
    /\ ~InRead
    /\ ret = Returned("it87_read", "B_OK", TRUE)
    /\ ~InPnPMode(hw)
    /\ ~TestBit(ConfigReg(hw), 0) /\ ~TestBit(ConfigReg(hw), 6)

\* C13: in it87_read of it87_driver.c a poll that sees the busy flag set is
\* repeated, without a cap, and a sensor register is read at the data port
\* only after a poll saw the flag clear; if the flag never stays set forever,
\* every it87_read eventually returns B_OK with monitoring disabled and
\* configuration mode left; if the flag is set forever at a poll, the call
\* never returns and configuration mode is never left.
C13_PollUntilClear ==
    /\ [][(AtPoll /\ hw.busy # 0) => (AtPoll' /\ threads'["a"].pc = threads["a"].pc)]_vars
    /\ [](gBaseAddress + IT87_DATA_PORT_OFFSET \notin threads["a"].unpolled)
    /\ ([](hw.busy # -1)) => (InRead ~> ReadReturned)
    /\ []((AtPoll /\ hw.busy = -1) => [](InRead /\ InPnPMode(hw)))

\* the last sensor read of an it87_read is waiting on a busy flag that will
\* take MaxBusy more polls to clear
C13_Witness ==
    /\ AtPoll
    /\ Len(threads["a"].got) = Len(ReadRegs) - 1
    /\ hw.busy = MaxBusy

\* C18: during it87_read of it87_driver.c every read of a runtime register,
\* the configuration register reads of it87_config included, follows a poll
\* of the address port that saw the busy flag clear.
C18_AllReadsPolled == InRead => threads["a"].unpolled = {}

\* C19: is_it87xx_present of it87_driver.c reports the chip present, and
\* records its ID in gChipID, exactly when the 16-bit ID in configuration
\* registers 0x20/0x21 is one of the twelve supported IDs.
C19_PresentClosedSet ==
    (ret.op = "init_hardware" /\ ret.status # "ENOSYS")
        => /\ ret.status = "B_OK" <=> ChipIdOf(hw) \in TwelveIDs
           /\ ret.status = "B_OK" => gChipID = ChipIdOf(hw)

\* an earlier init_hardware has run it87xx_detect, and gChipID is its result
Detected == gChipID # 0 \/ (ret.op = "init_hardware" /\ ret.status = "B_DEVICE_NOT_FOUND")
\* every write to the configuration data port in l follows a write of index reg
WritesOnly(l, reg) ==
    \A i \in 1..Len(l) :
        (l[i][1] = "out" /\ l[i][2] = CFG_PORT + 1)
            => (i > 1 /\ l[i - 1] = <<"out", CFG_PORT, reg>>)

\* C14: a call of it87xx_detect (made by init_hardware) returns what the
\* previous call returned, writes no configuration register but 0x02, and
\* leaves the selected logical device, the ID registers, every logical
\* device's registers and the runtime registers as they were.
C14_DetectIdempotent ==
    [][(loads' = loads + 1 /\ ret'.status # "ENOSYS")
          => /\ hw'.ldn = hw.ldn /\ hw'.dev = hw.dev
             /\ hw'.win = hw.win /\ hw'.id = hw.id
             /\ WritesOnly(log', CFG_CONTROL)
             /\ Detected => gChipID' = gChipID]_vars

\* a second detection, after init_driver had selected the Environmental
\* Controller, found the IT8728 again
C14_Witness ==
    /\ ret.op = "init_hardware" /\ ret.status = "B_OK"
    /\ loads = 2
    /\ gChipID = IT8728
    /\ hw.ldn = LDN_EC
    /\ Len(log) > 0

\* l[i .. i + 3] is a read-modify-write of IT87_REG_CONFIG through the port
\* pair at base that finds bits 0 and 6 with a value in `before` and leaves them as `after`
ConfigStepAt(l, i, base, before, after) ==
    /\ l[i] = <<"out", base, IT87_REG_CONFIG>>
    /\ l[i + 1][1] = "in" /\ l[i + 1][2] = base + 1
    /\ l[i + 2] = <<"out", base, IT87_REG_CONFIG>>
    /\ l[i + 3][1] = "out" /\ l[i + 3][2] = base + 1
    /\ TestBit(l[i + 1][3], 0) \in before /\ TestBit(l[i + 1][3], 6) \in before
    /\ TestBit(l[i + 3][3], 0) = after /\ TestBit(l[i + 3][3], 6) = after
\* l[from ..] reads the registers regs, one ITESensorRead after the other
SensorReadsAt(l, from, base, regs) ==
    \A k \in 1..Len(regs) :
        /\ l[from + 2 * k - 2] = <<"out", base + IT87_ADDR_PORT_OFFSET, regs[k]>>
        /\ l[from + 2 * k - 1][1] = "in"
        /\ l[from + 2 * k - 1][2] = base + IT87_DATA_PORT_OFFSET
\* the port accesses of one refresh: enter, enable, the n sensor reads,
\* disable, exit, and nothing else
RefreshOrder(l, base, regs) ==
    /\ Len(l) = 16 + 2 * Len(regs)
    /\ EnterPositions(l) = {1}
    /\ ConfigStepAt(l, 5, base, BOOLEAN, TRUE)
    /\ SensorReadsAt(l, 9, base, regs)
    /\ ConfigStepAt(l, 9 + 2 * Len(regs), base, {TRUE}, FALSE)
    /\ ExitPositions(l) = {13 + 2 * Len(regs)}

\* C15: the port accesses of an it87_refresh are, in order: the key (enter
\* configuration mode), a read-modify-write of the configuration register at
\* the runtime base port that sets bits 0 and 6, the reads of all sensor
\* registers, a read-modify-write at the same port that finds bits 0 and 6
\* still set and clears them, and the exit; the base port is not port 0x2E.
C15_RefreshOrder ==
    ret.refreshed =>
        /\ RefreshOrder(log, gBaseAddress, SensorReads(gChipID, build.order))
        /\ gBaseAddress # CFG_PORT
        /\ Range(VoltageRegs) \cup Range(TempRegs) \cup {IT87_REG_FAN_1, IT87_REG_FAN_2, IT87_REG_FAN_3}
              \subseteq Range(SensorReads(gChipID, build.order))

\* a refresh on a 16-bit chip that found monitoring disabled
C15_Witness ==
    /\ ret.refreshed
    /\ gChipID = IT8728
    /\ ~TestBit(pre.cfg, 0) /\ ~TestBit(pre.cfg, 6)
    /\ Len(log) = 16 + 2 * Len(SensorReads(IT8728, build.order))

\* places in l where runtime register reg is written through ITESensorWrite
SensorWrites(l, base, reg) ==
    {i \in 1..(Len(l) - 1) :
        /\ l[i] = <<"out", base + IT87_ADDR_PORT_OFFSET, reg>>
        /\ l[i + 1][1] = "out" /\ l[i + 1][2] = base + IT87_DATA_PORT_OFFSET}
LowThreeSet(v) == TestBit(v, 0) /\ TestBit(v, 1) /\ TestBit(v, 2)

ResolveLog(hi, lo) ==
    <<<<"out", CFG_PORT, KEY_1>>, <<"out", CFG_PORT, KEY_2>>,
      <<"out", CFG_PORT, KEY_3>>, <<"out", CFG_PORT, KEY_4>>,
      <<"out", CFG_PORT, 7>>, <<"out", CFG_PORT + 1, 4>>,
      <<"out", CFG_PORT, 48>>, <<"out", CFG_PORT + 1, 1>>,
      <<"out", CFG_PORT, 96>>, <<"in", CFG_PORT + 1, hi>>,
      <<"out", CFG_PORT, 97>>, <<"in", CFG_PORT + 1, lo>>>>

\* C17: find_isa_port_address (called by init_driver) enters configuration
\* mode, writes 4 to register 0x07 and 1 to register 0x30, reads registers
\* 0x60 and 0x61 of the Environmental Controller, leaves configuration mode,
\* and returns 0x60's value * 256 + 0x61's value, which is 0 exactly when
\* both are 0.
C17_ResolveBase ==
    ret.op = "init_driver" =>
        /\ Len(log) = 16
        /\ SubSeq(log, 1, 12) = ResolveLog(hw.dev[LDN_EC].bh, hw.dev[LDN_EC].bl)
        /\ ExitPositions(log) = {13}
        /\ gBaseAddress = hw.dev[LDN_EC].bh * 256 + hw.dev[LDN_EC].bl
        /\ gBaseAddress = 0 <=> (hw.dev[LDN_EC].bh = 0 /\ hw.dev[LDN_EC].bl = 0)
        /\ hw.ldn = LDN_EC /\ hw.dev[LDN_EC].act = 1

\* the address 0x0290 resolved from the bytes 0x02 and 0x90
C17_Witness ==
    /\ ret.op = "init_driver" /\ ret.status = "B_OK"
    /\ log[10] = <<"in", CFG_PORT + 1, 2>> /\ log[12] = <<"in", CFG_PORT + 1, 144>>
    /\ gBaseAddress = DEFAULT_BASE

Int16 == (-32768)..32767

\* C20: every value it87_refresh stores equals the decoded value, which lies
\* in -32768..32767: the fan RPM stored is the quotient computed from the
\* count and is not negative, and the millivolt values stored are the raw
\* byte times the resolution and the channel's factor.
C20_NoWraparound ==
    Delivered =>
        /\ \A i \in DOMAIN calc :
              /\ calc[i].rpm \in Int16
              /\ data.fans[i] = calc[i].rpm
              /\ data.fans[i] >= 0
        /\ \A i \in X1Channels : data.voltages[i] = Raw(VoltageRegs[i]) * ADC_RES
        /\ data.voltages[5] = Raw(IT87_REG_VIN4) * ADC_RES * 4
        /\ \A i \in 1..3 : data.temps[i] \in Int16

\* C21: in it87_driver.c at most one client holds the device open; an
\* it87_open made while a client holds it returns B_BUSY (or B_BAD_VALUE for
\* a wrong name) and changes neither the holder's claim nor gOpenCount; an
\* it87_open by the right name made while nobody holds it, as after the
\* holder's it87_free, returns B_OK and makes the caller the holder.
C21_SingleOpen ==
    /\ [](Cardinality(Holders) <= 1)
    /\ [](phase = "loaded" => (TestBit(gOpenCount, 0) <=> Holders # {}))
    /\ [][ret'.op = "it87_open" =>
             IF Holders # {}
             THEN /\ ret'.status \in {"B_BUSY", "B_BAD_VALUE"}
                  /\ cookies' = cookies
                  /\ gOpenCount' = gOpenCount
             ELSE \/ ret'.status = "B_BAD_VALUE" /\ cookies' = cookies
                  \/ ret'.status = "B_OK" /\ Cardinality(Holders') = 1]_vars
    /\ [][ret'.op = "it87_free" => (Holders' = {} /\ ~TestBit(gOpenCount', 0))]_vars

\* client b was refused while client a holds the device
C21_Witness ==
    /\ ret = Returned("it87_open", "B_BUSY", FALSE)
    /\ cookies["a"] = "open" /\ cookies["b"] = "none"
    /\ gOpenCount = 1

\* C22: in it87.cpp the references on the ISA module are balanced: none is
\* held when init_hardware has returned, whatever it returned, nor when
\* init_driver has failed or uninit_driver has run, and exactly one is held
\* while the driver is loaded.
C22_ModuleRefsBalanced ==
    /\ phase \in {"unloaded", "probed"} => refs = 0
    /\ phase = "loaded" => refs = 1

====
